---------------------------- MODULE Spec2Model ----------------------------
(***************************************************************************)
(* chatdigest: transcript parsing (services/chat_parser.py) and the        *)
(* context-preserving map/reduce compression (processor/                   *)
(* ollama_processor.py), and the message selection of                      *)
(* services/context_preserver.py.                                          *)
(*                                                                         *)
(* Text.  A Python str is modelled as a sequence of atoms.  An atom is a   *)
(* triple <<literal, id, width>>: a fixed piece of text, an index that     *)
(* tells apart pieces of the same kind (the utterance of turn 7), and the  *)
(* number of characters it stands for.  The literals are chosen so that no *)
(* literal overlaps another, hence a regular expression of the source      *)
(* matches the characters exactly where the operator below matches the     *)
(* atoms.  A slice that ends inside an atom leaves an atom with the same   *)
(* literal and a smaller width (a proper prefix of it).                    *)
(***************************************************************************)
EXTENDS Integers, Sequences, FiniteSets, TLC

VARIABLES
    raw,        \* ChatParser.parse: the content argument
    parsed,     \* ChatParser.parse: the ParsedChat returned (NoParse before)
    ppc,        \* position of the parse call: "ready" | "parsed"
    messages,   \* process_conversation: the messages argument
    max_workers,\* process_conversation: the max_workers argument
    pc,         \* position of process_conversation:
                \* "call" | "map" | "reduce" | "returned" | "raised"
    chunks,     \* _create_overlapping_chunks: the chunks list
    metadata,   \* _create_overlapping_chunks: the metadata list
    futures,    \* _process_chunks_with_context: the futures list
    results,    \* _process_chunks_with_context: the results list
    yielded,    \* the futures as_completed has yielded so far
    intermediate_summaries, \* _hierarchical_summarize: the list of that name
    reduce_log, \* the _combine_summaries calls made so far, in order
    outcome,    \* what process_conversation returned or raised
    gen_calls,  \* number of generate calls issued so far
    p_history,  \* create_summary_prompt: the summarized_history argument
    p_recent,   \* create_summary_prompt: the recent_messages argument
    p_target,   \* create_summary_prompt: the target_llm argument
    p_args,     \* the code_blocks arguments it was called with so far
    p_outputs,  \* the prompts it returned so far
    p_calls,  \* number of create_summary_prompt calls so far
    e_summary,  \* _ensure_code_blocks_present: the summary argument
    e_blocks,   \* _ensure_code_blocks_present: the code_blocks argument
    e_outs,     \* the values returned by successive applications
    s_messages, \* select_essential_messages: the messages argument
    s_budget,   \* select_essential_messages: the token_budget argument
    s_out       \* select_essential_messages: its outcome (NoOutcome before)

parseVars == <<raw, parsed, ppc>>

auxVars == <<e_summary, e_blocks, e_outs, s_messages, s_budget, s_out>>

promptVars == <<p_history, p_recent, p_target, p_args, p_outputs, p_calls>>

----------------------------------------------------------------------------
(* Atoms and the str operations the source uses.                           *)

LitLen(s) ==
    CASE s = " " -> 1
      [] s = "\t" -> 1
      [] s = "\n" -> 1
      [] s = "You said:" -> 9
      [] s = "ChatGPT said:" -> 13
      [] s = "chatgpt said:" -> 13
      [] s = "said:" -> 5
      [] s = "User:" -> 5
      [] s = "hi" -> 2
      [] s = "?" -> 1
      [] s = "Certainly!" -> 10
      [] s = "#" -> 1
      [] s = "[]" -> 2
      [] s = "[\"" -> 2
      [] s = "\"]" -> 2
      [] s = "python" -> 6
      [] s = "<fence>" -> 3
      [] s = "<tick>" -> 1
      [] s = "text" -> 4
      [] s = "User: " -> 6
      [] s = "Assistant: " -> 11
      [] s = "## Important Code Blocks" -> 24
      [] s = "# Previous Conversation Summary" -> 31
      [] s = "# Recent Messages (Verbatim)" -> 28
      [] s = "System: " -> 8
      [] s = "Human: " -> 7
      [] s = "Based on the conversation history summarized above and the recent messages, please continue the discussion naturally. The most recent messages are provided verbatim to give you the exact current context." -> 203
      [] s = "summary" -> 7
      [] s = "Ollama API error: " -> 18
      [] s = "[Summarization failed: " -> 23
      [] s = "[Combination failed: " -> 21
      [] s = "]" -> 1
      [] s = "..." -> 3
      [] s = "---" -> 3
      [] s = "The following code snippets from the conversation must be preserved:" -> 68
      [] OTHER -> 1

Lit(s) == <<s, 0, LitLen(s)>>

SP == Lit(" ")
NL == Lit("\n")

\* the text of turn p: one line of TurnWidth characters, no markup
TurnWidth == 80
Utter(p) == <<"utterance", p, TurnWidth>>

\* line k of a piece of code: CodeWidth characters of program text
CodeWidth == 10
CodeLine(k) == <<"code", k, CodeWidth>>

\* \s of the regular expressions, and what str.strip() removes
IsSpace(a) == a[1] \in {" ", "\t", "\n"}

Min(a, b) == IF a < b THEN a ELSE b
Max(a, b) == IF a > b THEN a ELSE b

RECURSIVE LStrip(_)
LStrip(s) ==
    IF s # <<>> /\ IsSpace(Head(s)) THEN LStrip(Tail(s)) ELSE s

RECURSIVE RStrip(_)
RStrip(s) ==
    IF s # <<>> /\ IsSpace(s[Len(s)]) THEN RStrip(SubSeq(s, 1, Len(s) - 1)) ELSE s

\* str.strip()
Strip(s) == RStrip(LStrip(s))

\* index of the first atom of s at or after position i with literal c; 0 if none
RECURSIVE FindLit(_, _, _)
FindLit(s, c, i) ==
    IF i > Len(s) THEN 0
    ELSE IF s[i][1] = c THEN i
    ELSE FindLit(s, c, i + 1)

\* str.split('\n'): always at least one piece
RECURSIVE SplitLines(_)
SplitLines(s) ==
    LET k == FindLit(s, "\n", 1)
    IN  IF k = 0 THEN <<s>>
        ELSE <<SubSeq(s, 1, k - 1)>> \o SplitLines(SubSeq(s, k + 1, Len(s)))

\* sep.join(pieces)
RECURSIVE Join(_, _)
Join(pieces, sep) ==
    IF pieces = <<>> THEN <<>>
    ELSE IF Len(pieces) = 1 THEN pieces[1]
    ELSE pieces[1] \o sep \o Join(Tail(pieces), sep)

----------------------------------------------------------------------------
(* ChatParser._detect_format                                               *)

\* (You|ChatGPT|...)\s+said:  without re.IGNORECASE
IsSaidMarker(a) == a[1] \in {"You said:", "ChatGPT said:"}

\* the same pattern with re.IGNORECASE
IsSaidMarkerAnyCase(a) == a[1] \in {"You said:", "ChatGPT said:", "chatgpt said:"}

\* the speaker group of a marker
Speaker(a) == IF a[1] = "You said:" THEN "You" ELSE "ChatGPT"

\* \w+ : an atom made of word characters only
IsWord(a) == a[1] \in {"hi", "python"}

\* the text starts a JSON array: content.strip().startswith("[")
StartsWithBracket(content) ==
    Strip(content) # <<>> /\ Strip(content)[1][1] \in {"[]", "[\""}

\* json.loads(content) succeeds: surrounded by whitespace, the empty array
\* or an array of one string (no quote, no control character inside)
JsonLoads(content) ==
    LET s == Strip(content)
    IN  \/ s = <<Lit("[]")>>
        \/ /\ Len(s) >= 2
           /\ s[1] = Lit("[\"")
           /\ s[Len(s)] = Lit("\"]")
           /\ \A k \in 2..(Len(s) - 1) : s[k][1] \notin {"[\"", "\"]", "\n", "\t"}

\* position just after the whitespace run starting at i
RECURSIVE SkipSpace(_, _)
SkipSpace(s, i) ==
    IF i <= Len(s) /\ IsSpace(s[i]) THEN SkipSpace(s, i + 1) ELSE i

RECURSIVE SkipWord(_, _)
SkipWord(s, i) ==
    IF i <= Len(s) /\ IsWord(s[i]) THEN SkipWord(s, i + 1) ELSE i

\* #\s+\w+\s*\n+ matches at position i
HeaderAt(s, i) ==
    /\ s[i][1] = "#"
    /\ LET w == SkipSpace(s, i + 1)
           e == SkipWord(s, w)
           f == SkipSpace(s, e)
       IN  /\ w > i + 1
           /\ e > w
           /\ \E j \in e..(f - 1) : s[j][1] = "\n"

\* (User|Human|...|System):\s matches at position i
RolePrefixAt(s, i) == s[i][1] = "User:" /\ i < Len(s) /\ IsSpace(s[i + 1])

\* the conversation probe is tried before the others
DetectConversationFirst(content) ==
    IF \E i \in 1..Len(content) : RolePrefixAt(content, i)
    THEN "conversation"
    ELSE IF StartsWithBracket(content) /\ JsonLoads(content)
    THEN "json"
    ELSE IF \E i \in 1..Len(content) : IsSaidMarkerAnyCase(content[i])
    THEN "said_format"
    ELSE IF \E i \in 1..Len(content) : HeaderAt(content, i)
    THEN "openai_web"
    ELSE "generic"

_detect_format(content) ==
    IF StartsWithBracket(content) /\ JsonLoads(content)
    THEN "json"
    ELSE IF \E i \in 1..Len(content) : IsSaidMarkerAnyCase(content[i])
    THEN "said_format"
    ELSE IF \E i \in 1..Len(content) : HeaderAt(content, i)
    THEN "openai_web"
    ELSE IF \E i \in 1..Len(content) : RolePrefixAt(content, i)
    THEN "conversation"
    ELSE "generic"

----------------------------------------------------------------------------
(* ChatParser._parse_generic_format                                        *)

ChatMessage(r, c) == [role |-> r, content |-> c]

\* the role of a line as detect_role_change sees it; "none" for None
detect_role_change(line) ==
    IF line[1][1] \in {"User:"} THEN "user"
    ELSE IF line[1][1] \in {"ChatGPT said:", "chatgpt said:"} THEN "assistant"
    ELSE IF line[1][1] \in {"Certainly!"} THEN "assistant"
    ELSE IF line[Len(line)][1] = "?" THEN "user"
    ELSE "none"

\* [\s:]+ after a role word: the rest of the line after the prefix
RECURSIVE SkipSpaceColon(_)
SkipSpaceColon(s) ==
    IF s # <<>> /\ (IsSpace(Head(s)) \/ Head(s)[1] = ":")
    THEN SkipSpaceColon(Tail(s)) ELSE s

\* the line with an explicit role prefix removed (group 2, stripped)
RemovePrefix(line) ==
    IF line[1][1] = "User:" THEN Strip(SkipSpaceColon(Tail(line)))
    ELSE IF line[1][1] \in {"ChatGPT said:", "chatgpt said:"}
    THEN Strip(<<Lit("said:")>> \o Tail(line))
    ELSE line

IsBlank(line) == Strip(line) = <<>>

\* lines i+1 .. i+3 (0-based i) that are blank
EmptyCount(lines, i) ==
    Cardinality({j \in (i + 1)..Min(i + 3, Len(lines)) : IsBlank(lines[j])})

FlipRole(r) == IF r = "user" THEN "assistant" ELSE "user"

Flush(st) ==
    Append(st.messages,
           ChatMessage(st.current_role, Strip(Join(st.current_content, <<NL>>))))

\* if current_role is None: current_role = "user"
DefaultRole(role) == IF role = "none" THEN "user" ELSE role

\* one iteration of the while loop on 1-based line i
GenericStep(lines, i, st) ==
    LET line == Strip(lines[i])
    IN  IF line = <<>>
        THEN IF EmptyCount(lines, i) >= 2 /\ st.current_content # <<>>
             THEN [messages |-> Flush(st),
                   current_role |-> FlipRole(st.current_role),
                   current_content |-> <<>>]
             ELSE st
        ELSE LET detected == detect_role_change(line)
                 saved == IF /\ detected # "none"
                             /\ st.current_role # "none"
                             /\ st.current_content # <<>>
                          THEN [st EXCEPT !.messages = Flush(st),
                                          !.current_content = <<>>]
                          ELSE st
                 role1 == IF detected # "none" THEN detected ELSE saved.current_role
                 line1 == IF detected # "none" THEN RemovePrefix(line) ELSE line
                 role2 == DefaultRole(role1)
             IN  [messages |-> saved.messages,
                  current_role |-> role2,
                  current_content |-> Append(saved.current_content, line1)]

RECURSIVE GenericLoop(_, _, _)
GenericLoop(lines, i, st) ==
    IF i > Len(lines) THEN st
    ELSE GenericLoop(lines, i + 1, GenericStep(lines, i, st))

ValidateOrderSkipped(msgs, i) == msgs

\* "Validate message order": the second of two equal neighbours is switched
RECURSIVE ValidateOrder(_, _)
ValidateOrder(msgs, i) ==
    IF i > Len(msgs) THEN msgs
    ELSE IF msgs[i].role = msgs[i - 1].role
    THEN ValidateOrder([msgs EXCEPT ![i].role = FlipRole(msgs[i].role)], i + 1)
    ELSE ValidateOrder(msgs, i + 1)

EnsureOneDropped(msgs, content) == msgs

\* "Ensure at least one message"
EnsureOne(msgs, content) ==
    IF msgs = <<>> THEN <<ChatMessage("user", Strip(content))>> ELSE msgs

\* the messages after the loop and "Store last message", before validation
GenericStored(content) ==
    LET st == GenericLoop(SplitLines(content), 1,
                          [messages |-> <<>>, current_role |-> "none",
                           current_content |-> <<>>])
    IN  IF st.current_role # "none" /\ st.current_content # <<>>
        THEN Flush(st) ELSE st.messages

_parse_generic_format(content) ==
    EnsureOne(ValidateOrder(GenericStored(content), 2), content)

----------------------------------------------------------------------------
(* ChatParser._parse_said_format                                           *)

\* end (exclusive) of the text of the marker at i: the next marker or the end
RECURSIVE NextMarker(_, _)
NextMarker(s, i) ==
    IF i > Len(s) THEN i
    ELSE IF IsSaidMarker(s[i]) THEN i
    ELSE NextMarker(s, i + 1)

\* re.findall(pattern, content, re.DOTALL): <<speaker, text>> per marker
RECURSIVE SaidMatches(_, _)
SaidMatches(s, i) ==
    IF i > Len(s) THEN <<>>
    ELSE IF IsSaidMarker(s[i])
    THEN LET e == NextMarker(s, i + 1)
         IN  <<<<Speaker(s[i]), SubSeq(s, i + 1, e - 1)>>>> \o SaidMatches(s, e)
    ELSE SaidMatches(s, i + 1)

SaidRole(speaker) == IF speaker = "You" THEN "user" ELSE "assistant"

SaidTurns(matches) ==
    [k \in 1..Len(matches) |->
        ChatMessage(SaidRole(matches[k][1]), Strip(matches[k][2]))]

\* the first line of the stripped content carries no speaker marker
FirstLineUnlabeled(content) ==
    LET first_line == Strip(SplitLines(Strip(content))[1])
    IN  ~(first_line # <<>> /\ IsSaidMarkerAnyCase(first_line[1]))

\* the messages list before the final "messages if messages else ..."
SaidMessages(content) ==
    LET lines == SplitLines(Strip(content))
        unlabeled == FirstLineUnlabeled(content)
        lead == IF unlabeled THEN <<ChatMessage("user", Strip(lines[1]))>> ELSE <<>>
        rest == IF unlabeled THEN Join(Tail(lines), <<NL>>) ELSE content
    IN  lead \o SaidTurns(SaidMatches(rest, 1))

_parse_said_format(content) ==
    IF SaidMessages(content) # <<>> THEN SaidMessages(content)
    ELSE _parse_generic_format(content)

----------------------------------------------------------------------------
(* ChatParser.parse                                                        *)

parse(content) ==
    LET format_to_use == _detect_format(content)
        msgs == IF format_to_use = "said_format"
                    THEN _parse_said_format(content)
                    ELSE _parse_generic_format(content)
    IN  [messages |-> msgs,
         format_detected |-> format_to_use,
         message_count |-> Len(msgs),
         raw_content |-> content]

NoParse == [messages |-> <<>>, format_detected |-> "", message_count |-> 0,
            raw_content |-> <<>>]

----------------------------------------------------------------------------
(* More str operations, used by OllamaProcessor.                           *)

\* len(s)
RECURSIVE TextLen(_)
TextLen(s) == IF s = <<>> THEN 0 ELSE Head(s)[3] + TextLen(Tail(s))

\* s[:k]
RECURSIVE TakeChars(_, _)
TakeChars(s, k) ==
    IF s = <<>> \/ k <= 0 THEN <<>>
    ELSE IF Head(s)[3] <= k THEN <<Head(s)>> \o TakeChars(Tail(s), k - Head(s)[3])
    ELSE <<<<Head(s)[1], Head(s)[2], k>>>>

\* needle in hay
Contains(hay, needle) ==
    \/ needle = <<>>
    \/ \E i \in 1..(Len(hay) - Len(needle) + 1) :
          SubSeq(hay, i, i + Len(needle) - 1) = needle

\* re.sub(r'\s+', ' ', s)
RECURSIVE CollapseSpace(_)
CollapseSpace(s) ==
    IF s = <<>> THEN <<>>
    ELSE IF IsSpace(Head(s)) THEN <<SP>> \o CollapseSpace(LStrip(s))
    ELSE <<Head(s)>> \o CollapseSpace(Tail(s))

\* re.sub(r'\s+', ' ', s).strip()
Normalize(s) == Strip(CollapseSpace(s))

----------------------------------------------------------------------------
(* OllamaProcessor._format_messages                                        *)

RoleLabel(role) == IF role = "user" THEN Lit("User: ") ELSE Lit("Assistant: ")

FormatOne(msg) == <<RoleLabel(msg.role)>> \o msg.content

_format_messages(msgs) ==
    Join([k \in 1..Len(msgs) |-> FormatOne(msgs[k])], <<NL, NL>>)

----------------------------------------------------------------------------
(* OllamaProcessor._extract_code_blocks                                    *)

\* three backticks, and one backtick
FENCE == Lit("<fence>")
TICK == Lit("<tick>")

\* a backtick character begins or ends at this atom
IsTick(a) == a[1] \in {"<tick>", "<fence>"}

\* [=(){}\[\]<>]|\w+\(  finds something in the atom
IsCodeLike(a) == a[1] \in {"code"}

CodeBlock(lang, code) == [language |-> lang, code |-> code]

\* re.findall(code_pattern, content, re.DOTALL) from atom i on
RECURSIVE FencedMatches(_, _)
FencedMatches(s, i) ==
    IF i > Len(s) THEN <<>>
    ELSE IF s[i] # FENCE THEN FencedMatches(s, i + 1)
    ELSE LET j == SkipWord(s, i + 1)
             k == IF j <= Len(s) /\ s[j] = NL THEN FindLit(s, "<fence>", j + 1) ELSE 0
         IN  IF k = 0 THEN FencedMatches(s, i + 1)
             ELSE <<<<SubSeq(s, i + 1, j - 1), SubSeq(s, j + 1, k - 1)>>>>
                  \o FencedMatches(s, k + 1)

\* end of the run of atoms from i on that hold neither a backtick nor a newline
RECURSIVE SkipInline(_, _)
SkipInline(s, i) ==
    IF i <= Len(s) /\ ~IsTick(s[i]) /\ s[i] # NL THEN SkipInline(s, i + 1) ELSE i

\* re.findall(inline_pattern, content) from atom i on
RECURSIVE InlineMatches(_, _)
InlineMatches(s, i) ==
    IF i > Len(s) THEN <<>>
    ELSE IF ~IsTick(s[i]) THEN InlineMatches(s, i + 1)
    ELSE LET k == SkipInline(s, i + 1)
             span == SubSeq(s, i + 1, k - 1)
         IN  IF k <= Len(s) /\ IsTick(s[k]) /\ TextLen(span) >= 3
             THEN <<span>> \o InlineMatches(s, IF s[k] = FENCE THEN k ELSE k + 1)
             ELSE InlineMatches(s, i + 1)

FencedBlocks(content) ==
    LET m == FencedMatches(content, 1)
        kept == SelectSeq(m, LAMBDA x : Strip(x[2]) # <<>>)
    IN  [n \in 1..Len(kept) |->
            CodeBlock(IF Strip(kept[n][1]) # <<>> THEN Strip(kept[n][1])
                      ELSE <<Lit("text")>>,
                      Strip(kept[n][2]))]

InlineBlocks(content) ==
    LET m == InlineMatches(content, 1)
        kept == SelectSeq(m, LAMBDA x :
                    (\E n \in 1..Len(x) : IsCodeLike(x[n])) /\ Strip(x) # <<>>)
    IN  [n \in 1..Len(kept) |-> CodeBlock(<<Lit("text")>>, Strip(kept[n]))]

RECURSIVE _extract_code_blocks(_)
_extract_code_blocks(msgs) ==
    IF msgs = <<>> THEN <<>>
    ELSE FencedBlocks(Head(msgs).content)
         \o InlineBlocks(Head(msgs).content)
         \o _extract_code_blocks(Tail(msgs))

----------------------------------------------------------------------------
(* OllamaProcessor._ensure_code_blocks_present                             *)

MinCodeLen == 20

\* the block is put on missing_blocks
\* every block of the minimum length counts as missing, present or not
IsMissingUnchecked(summary, block) == TextLen(block.code) >= MinCodeLen

IsMissing(summary, block) ==
    LET code == block.code
        code_lines == SplitLines(code)
        first_line == Strip(code_lines[1])
        last_line == Strip(code_lines[Len(code_lines)])
    IN  /\ TextLen(code) >= MinCodeLen
        /\ ~Contains(Normalize(summary), Normalize(code))
        /\ IF Len(code_lines) > 2
           THEN /\ first_line # <<>>
                /\ last_line # <<>>
                /\ ~Contains(summary, first_line)
                /\ ~Contains(summary, last_line)
           ELSE TRUE

MissingBlocks(summary, code_blocks) ==
    SelectSeq(code_blocks, LAMBDA b : IsMissing(summary, b))

CodeHeader ==
    <<NL, NL, Lit("## Important Code Blocks"), NL, NL,
      Lit("The following code snippets from the conversation must be preserved:"),
      NL, NL>>

\* the copy without the language tag
FencedCopyUntagged(block) ==
    <<FENCE, NL>> \o block.code \o <<NL, FENCE, NL, NL>>

FencedCopy(block) ==
    IF block.language # <<>> /\ block.language # <<Lit("text")>>
    THEN <<FENCE>> \o block.language \o <<NL>> \o block.code \o <<NL, FENCE, NL, NL>>
    ELSE <<FENCE, NL>> \o block.code \o <<NL, FENCE, NL, NL>>

RECURSIVE FencedCopies(_)
FencedCopies(blocks) ==
    IF blocks = <<>> THEN <<>>
    ELSE FencedCopy(Head(blocks)) \o FencedCopies(Tail(blocks))

_ensure_code_blocks_present(summary, code_blocks) ==
    LET missing_blocks == MissingBlocks(summary, code_blocks)
    IN  IF code_blocks = <<>> \/ missing_blocks = <<>> THEN summary
        ELSE summary \o CodeHeader \o FencedCopies(missing_blocks)

----------------------------------------------------------------------------
(* OllamaProcessor._create_overlapping_chunks                              *)
(* A chunk is a list of references to the messages of the caller's list:   *)
(* it is modelled as the list of their 1-based positions.                  *)

chunk_size == 8
overlap == 2

\* the ordinal is counted from 1
MetaOneBased(index, total, is_first, is_last) ==
    [index |-> index + 1, total |-> total, is_first |-> is_first, is_last |-> is_last]

Meta(index, total, is_first, is_last) ==
    [index |-> index, total |-> total, is_first |-> is_first, is_last |-> is_last]

\* a short final window is dropped instead of merged
ChunkStepDropShort(n, i, acc) ==
    LET end_idx == Min(i + chunk_size, n)
        window == [k \in 1..(end_idx - i) |-> i + k]
        c == Len(acc.chunks)
    IN  IF end_idx - i < chunk_size \div 2 /\ acc.chunks # <<>>
        THEN [chunks |-> acc.chunks,
              metadata |-> [acc.metadata EXCEPT ![c].is_last = TRUE]]
        ELSE [chunks |-> Append(acc.chunks, window),
              metadata |-> Append(acc.metadata,
                  Meta(c, (n - 1) \div (chunk_size - overlap) + 1,
                       i = 0, end_idx = n))]

\* every window becomes a chunk, however short
ChunkStepNoMerge(n, i, acc) ==
    LET end_idx == Min(i + chunk_size, n)
        window == [k \in 1..(end_idx - i) |-> i + k]
        c == Len(acc.chunks)
    IN  [chunks |-> Append(acc.chunks, window),
         metadata |-> Append(acc.metadata,
             Meta(c, (n - 1) \div (chunk_size - overlap) + 1,
                  i = 0, end_idx = n))]

\* the loop body for start index i (0-based) over n messages
ChunkStep(n, i, acc) ==
    LET end_idx == Min(i + chunk_size, n)
        window == [k \in 1..(end_idx - i) |-> i + k]
        c == Len(acc.chunks)
    IN  IF end_idx - i < chunk_size \div 2 /\ acc.chunks # <<>>
        THEN [chunks |-> [acc.chunks EXCEPT ![c] = acc.chunks[c] \o window],
              metadata |-> [acc.metadata EXCEPT ![c].is_last = TRUE]]
        ELSE [chunks |-> Append(acc.chunks, window),
              metadata |-> Append(acc.metadata,
                  Meta(c, (n - 1) \div (chunk_size - overlap) + 1,
                       i = 0, end_idx = n))]

\* the start index advances by chunk_size: the windows do not overlap
RECURSIVE ChunkLoopNoOverlap(_, _, _)
ChunkLoopNoOverlap(n, i, acc) ==
    IF i >= n THEN acc
    ELSE ChunkLoopNoOverlap(n, i + chunk_size, ChunkStep(n, i, acc))

RECURSIVE ChunkLoop(_, _, _)
ChunkLoop(n, i, acc) ==
    IF i >= n THEN acc
    ELSE ChunkLoop(n, i + (chunk_size - overlap), ChunkStep(n, i, acc))

\* chunks and metadata for a list of n messages
_create_overlapping_chunks(n) ==
    IF n <= chunk_size
    THEN [chunks |-> <<[k \in 1..n |-> k]>>,
          metadata |-> <<Meta(0, 1, TRUE, TRUE)>>]
    ELSE ChunkLoop(n, 0, [chunks |-> <<>>, metadata |-> <<>>])

\* the messages a chunk refers to
ChunkMessages(msgs, chunk) == [k \in 1..Len(chunk) |-> msgs[chunk[k]]]

----------------------------------------------------------------------------
(* OllamaProcessor.create_summary_prompt                                   *)

Instruction ==
    Lit("Based on the conversation history summarized above and the recent messages, please continue the discussion naturally. The most recent messages are provided verbatim to give you the exact current context.")

\* target_llm.startswith(...) over the target names used here
Family(target_llm) ==
    CASE target_llm \in {"gpt-4"} -> "gpt-"
      [] target_llm \in {"claude-3"} -> "claude-"
      [] target_llm \in {"gemini-pro"} -> "gemini-"
      [] OTHER -> ""

\* role_str + msg.content
PromptTurn(msg) ==
    <<IF msg.role = "user" THEN Lit("User: ") ELSE Lit("Assistant: ")>> \o msg.content

\* the sections list before it is joined
PromptSections(summarized_history, recent_messages) ==
    <<<<Lit("# Previous Conversation Summary")>>, summarized_history>>
    \o (IF recent_messages = <<>> THEN <<>>
        ELSE <<<<Lit("# Recent Messages (Verbatim)")>>>>
             \o [k \in 1..Len(recent_messages) |-> PromptTurn(recent_messages[k])])

\* "Combine all sections" and "Format based on target LLM"
FormatForTarget(sections, target_llm) ==
    LET content == Join(sections, <<NL, NL>>)
        body == <<Instruction, NL, NL>> \o content \o <<NL, NL>>
    IN  CASE Family(target_llm) = "gpt-" ->
               <<Lit("System: ")>> \o body \o <<Lit("User: ")>>
          [] Family(target_llm) = "claude-" ->
               <<Lit("Human: ")>> \o body \o <<Lit("Human: ")>>
          [] Family(target_llm) = "gemini-" ->
               <<Lit("User: ")>> \o body \o <<Lit("User: ")>>
          [] OTHER -> body

create_summary_prompt_with_code(summarized_history, recent_messages, code_blocks, target_llm) ==
    FormatForTarget(PromptSections(summarized_history, recent_messages)
                        \o (IF code_blocks = <<>> THEN <<>>
                            ELSE <<FencedCopies(code_blocks)>>),
                    target_llm)

create_summary_prompt(summarized_history, recent_messages, code_blocks, target_llm) ==
    FormatForTarget(PromptSections(summarized_history, recent_messages), target_llm)

----------------------------------------------------------------------------
(* The generation capability (OllamaService.generate) as the processor     *)
(* sees it: a call returns some text or raises.                            *)

\* the outcome "generate raised"
GenFail == <<<<"<raised>", 0, 0>>>>

\* str(e) of the exception generate raises
ErrText == <<Lit("Ollama API error: ")>>

\* the texts a call may return
SummaryPlain == <<Lit("summary")>>
SummaryEcho == <<Lit("summary"), SP, CodeLine(1)>>
GenTexts == {SummaryPlain, SummaryEcho}

GenOutcomes == {GenFail} \cup GenTexts

----------------------------------------------------------------------------
(* OllamaProcessor._format_and_summarize_with_context and                  *)
(* OllamaProcessor._combine_summaries, given the outcome g of their        *)
(* generate call.                                                          *)

TaskTruncate == 500
CombineTruncate == 1000

\* the fallback text is returned whether or not generate raised
FormatAndSummarizeAlwaysFallback(chunk_messages, g) ==
    <<Lit("[Summarization failed: ")>> \o ErrText \o <<Lit("]"), NL, NL>>
    \o TakeChars(_format_messages(chunk_messages), TaskTruncate) \o <<Lit("...")>>

_format_and_summarize_with_context(chunk_messages, g) ==
    LET formatted_text == _format_messages(chunk_messages)
    IN  IF g # GenFail THEN g
        ELSE <<Lit("[Summarization failed: ")>> \o ErrText \o <<Lit("]"), NL, NL>>
             \o TakeChars(formatted_text, TaskTruncate) \o <<Lit("...")>>

Separator == <<NL, NL, Lit("---"), NL, NL>>

_combine_summaries(summaries, g) ==
    LET combined_content == Join(summaries, Separator)
    IN  IF g # GenFail THEN g
        ELSE <<Lit("[Combination failed: ")>> \o ErrText \o <<Lit("]"), NL, NL>>
             \o TakeChars(combined_content, CombineTruncate) \o <<Lit("...")>>

----------------------------------------------------------------------------
(* OllamaProcessor.process_conversation and the stages it runs.            *)

preserve_recent == 3
DirectLimit == 12
GroupSize == 3

\* the split keeps one turn more in the tail
split_index_early == Max(Len(messages) - preserve_recent - 1, 1)

\* split_index = max(len(messages) - preserve_recent, 1)
split_index == Max(Len(messages) - preserve_recent, 1)
historical == SubSeq(messages, 1, split_index)
recent == SubSeq(messages, split_index + 1, Len(messages))

NoOutcome == [kind |-> "none", history |-> <<>>, recent |-> <<>>]
Returned(h, r) == [kind |-> "return", history |-> h, recent |-> r]
Raised == [kind |-> "AttributeError", history |-> <<>>, recent |-> <<>>]

EarlyReturnNothing(msgs) == Returned(<<>>, <<>>)

\* return "", messages
EarlyReturn(msgs) == Returned(<<>>, msgs)

\* results = [None] * len(chunks)
NoneResult == <<<<"<None>", 0, 0>>>>

PendingFuture == [state |-> "pending", gen |-> NoneResult, result |-> NoneResult]

\* [r for r in results if r is not None]
chunk_summaries == SelectSeq(results, LAMBDA r : r # NoneResult)

\* chunk_summaries[i:i+3] for i in range(0, len(chunk_summaries), 3)
NGroups == (Len(chunk_summaries) + GroupSize - 1) \div GroupSize
\* the slice is one short: chunk_summaries[i:i+2]
GroupOfTwo(j) ==
    SubSeq(chunk_summaries, GroupSize * (j - 1) + 1,
           Min(GroupSize * (j - 1) + 2, Len(chunk_summaries)))

Group(j) ==
    SubSeq(chunk_summaries, GroupSize * (j - 1) + 1,
           Min(GroupSize * j, Len(chunk_summaries)))

ReduceCall(is_final, summaries, g) ==
    [is_final |-> is_final, summaries |-> summaries, gen |-> g]

\* process_conversation is called: it returns at once, or takes the direct
\* path, or chunks the history and submits one task per chunk
Call ==
    /\ pc = "call"
    /\ IF Len(messages) <= preserve_recent
       THEN /\ outcome' = EarlyReturn(messages)
            /\ pc' = "returned"
            /\ UNCHANGED <<chunks, metadata, futures, results>>
       ELSE IF Len(historical) <= DirectLimit
       THEN \* self._format_and_summarize is not a method of the class
            /\ outcome' = Raised
            /\ pc' = "raised"
            /\ UNCHANGED <<chunks, metadata, futures, results>>
       ELSE LET c == _create_overlapping_chunks(Len(historical))
            IN  /\ chunks' = c.chunks
                /\ metadata' = c.metadata
                /\ futures' = [i \in 1..Len(c.chunks) |-> PendingFuture]
                /\ results' = [i \in 1..Len(c.chunks) |-> NoneResult]
                /\ pc' = "map"
                /\ UNCHANGED outcome
    /\ UNCHANGED <<messages, max_workers, yielded, intermediate_summaries,
                   reduce_log, gen_calls>>

\* the pool counts no task as running
RunningUncounted == {}

\* the tasks a worker thread of the pool is executing
Running == {i \in 1..Len(futures) : futures[i].state = "running"}

\* a worker thread of the pool takes the oldest queued task and issues its
\* generate call
StartTask(i) ==
    /\ pc = "map"
    /\ futures[i].state = "pending"
    /\ \A j \in 1..(i - 1) : futures[j].state # "pending"
    /\ Cardinality(Running) < max_workers
    /\ futures' = [futures EXCEPT ![i].state = "running"]
    /\ gen_calls' = gen_calls + 1
    /\ UNCHANGED <<messages, max_workers, pc, chunks, metadata, results, yielded,
                   intermediate_summaries, reduce_log, outcome>>

\* the generate call of task i ends with outcome g and the task returns
FinishTask(i, g) ==
    /\ pc = "map"
    /\ futures[i].state = "running"
    /\ futures' = [futures EXCEPT ![i] =
          [state |-> "finished", gen |-> g,
           result |-> _format_and_summarize_with_context(
                          ChunkMessages(historical, chunks[i]), g)]]
    /\ UNCHANGED <<messages, max_workers, pc, chunks, metadata, results, yielded,
                   intermediate_summaries, reduce_log, outcome, gen_calls>>

\* the value goes to the first free slot
StoreResultInArrivalOrder(res, idx, value) ==
    [res EXCEPT ![CHOOSE k \in 1..Len(res) :
                    res[k] = NoneResult /\ \A j \in 1..(k - 1) : res[j] # NoneResult] = value]

\* results[idx] = future.result() for the future as_completed yields next
StoreResult(res, idx, value) == [res EXCEPT ![idx] = value]

\* the loop is left after the first future as_completed yields
FirstCollected(y, n) == y # {}

\* the loop over as_completed(futures) ends when every future was yielded
AllCollected(y, n) == y = 1..n

\* as_completed yields a finished future; the loop body stores its result
Collect(i) ==
    /\ pc = "map"
    /\ futures[i].state = "finished"
    /\ i \notin yielded
    /\ results' = StoreResult(results, i, futures[i].result)
    /\ yielded' = yielded \cup {i}
    /\ pc' = IF AllCollected(yielded', Len(futures)) THEN "reduce" ELSE "map"
    /\ UNCHANGED <<messages, max_workers, chunks, metadata, futures,
                   intermediate_summaries, reduce_log, outcome, gen_calls>>

Finish(summarized) ==
    Returned(_ensure_code_blocks_present(summarized, _extract_code_blocks(historical)),
             recent)

\* len(chunk_summaries) <= 3: one final combination, then the return
CombineDirect(g) ==
    /\ pc = "reduce"
    /\ Len(chunk_summaries) <= GroupSize
    /\ reduce_log' = Append(reduce_log, ReduceCall(TRUE, chunk_summaries, g))
    /\ outcome' = Finish(_combine_summaries(chunk_summaries, g))
    /\ pc' = "returned"
    /\ gen_calls' = gen_calls + 1
    /\ UNCHANGED <<messages, max_workers, chunks, metadata, futures, results,
                   yielded, intermediate_summaries>>

\* the next group of three is combined into an intermediate summary
CombineGroup(g) ==
    /\ pc = "reduce"
    /\ Len(chunk_summaries) > GroupSize
    /\ Len(intermediate_summaries) < NGroups
    /\ LET group == Group(Len(intermediate_summaries) + 1)
       IN  /\ reduce_log' = Append(reduce_log, ReduceCall(FALSE, group, g))
           /\ intermediate_summaries' =
                 Append(intermediate_summaries, _combine_summaries(group, g))
    /\ gen_calls' = gen_calls + 1
    /\ UNCHANGED <<messages, max_workers, pc, chunks, metadata, futures, results,
                   yielded, outcome>>

\* the intermediate summaries are combined, then the return
CombineFinal(g) ==
    /\ pc = "reduce"
    /\ Len(chunk_summaries) > GroupSize
    /\ Len(intermediate_summaries) = NGroups
    /\ reduce_log' = Append(reduce_log, ReduceCall(TRUE, intermediate_summaries, g))
    /\ outcome' = Finish(_combine_summaries(intermediate_summaries, g))
    /\ pc' = "returned"
    /\ gen_calls' = gen_calls + 1
    /\ UNCHANGED <<messages, max_workers, chunks, metadata, futures, results,
                   yielded, intermediate_summaries>>

----------------------------------------------------------------------------
(* Conversations handed to process_conversation.                           *)

MaxTurns == 25
MaxWorkers == 3

TurnRole(p) == IF p % 2 = 1 THEN "user" ELSE "assistant"

\* a fenced block of three lines of code, tagged python
FencedCode ==
    <<NL, FENCE, Lit("python"), NL, CodeLine(1), NL, CodeLine(2), NL, CodeLine(3),
      NL, FENCE>>

\* n alternating turns; turn code_at (if any) carries the fenced block
Conversation(n, code_at) ==
    [p \in 1..n |->
        ChatMessage(TurnRole(p),
                    <<Utter(p)>> \o (IF p = code_at THEN FencedCode ELSE <<>>))]

Conversations ==
    {Conversation(n, c) : n \in 0..MaxTurns, c \in {0, 1}}
        \cup {parse(<<>>).messages}

procVars == <<messages, max_workers, pc, chunks, metadata, futures, results,
              yielded, intermediate_summaries, reduce_log, outcome, gen_calls>>

IdleProc ==
    /\ messages = <<>>
    /\ max_workers = 0
    /\ pc = "idle"
    /\ chunks = <<>>
    /\ metadata = <<>>
    /\ futures = <<>>
    /\ results = <<>>
    /\ yielded = {}
    /\ intermediate_summaries = <<>>
    /\ reduce_log = <<>>
    /\ outcome = NoOutcome
    /\ gen_calls = 0

IdlePrompt ==
    /\ p_history = <<>>
    /\ p_recent = <<>>
    /\ p_target = ""
    /\ p_args = {}
    /\ p_outputs = {}
    /\ p_calls = 0

IdleAux ==
    /\ e_summary = <<>>
    /\ e_blocks = <<>>
    /\ e_outs = <<>>
    /\ s_messages = <<>>
    /\ s_budget = 0
    /\ s_out = NoOutcome

IdleParse ==
    /\ raw = <<>>
    /\ parsed = NoParse
    /\ ppc = "idle"

Init ==
    /\ IdleParse
    /\ IdleAux
    /\ IdlePrompt
    /\ messages \in Conversations
    /\ max_workers \in 1..MaxWorkers
    /\ pc = "call"
    /\ chunks = <<>>
    /\ metadata = <<>>
    /\ futures = <<>>
    /\ results = <<>>
    /\ yielded = {}
    /\ intermediate_summaries = <<>>
    /\ reduce_log = <<>>
    /\ outcome = NoOutcome
    /\ gen_calls = 0

Next ==
    \/ Call /\ UNCHANGED <<parseVars, promptVars, auxVars>>
    \/ \E i \in 1..Len(futures) : StartTask(i) /\ UNCHANGED <<parseVars, promptVars, auxVars>>
    \/ \E i \in 1..Len(futures), g \in GenOutcomes : FinishTask(i, g) /\ UNCHANGED <<parseVars, promptVars, auxVars>>
    \/ \E i \in 1..Len(futures) : Collect(i) /\ UNCHANGED <<parseVars, promptVars, auxVars>>
    \/ \E g \in GenOutcomes : CombineDirect(g) /\ UNCHANGED <<parseVars, promptVars, auxVars>>
    \/ \E g \in GenOutcomes : CombineGroup(g) /\ UNCHANGED <<parseVars, promptVars, auxVars>>
    \/ \E g \in GenOutcomes : CombineFinal(g) /\ UNCHANGED <<parseVars, promptVars, auxVars>>

vars == <<parseVars, procVars, promptVars, auxVars>>

Spec == Init /\ [][Next]_vars

----------------------------------------------------------------------------
(* The parse call on bounded raw inputs.                                   *)

MaxRaw == 5

ParseAlphabet ==
    {Lit("You said:"), Lit("ChatGPT said:"), Lit("chatgpt said:"),
     Lit("User:"), Lit("hi"), SP, NL}

RawInputs == UNION {[1..n -> ParseAlphabet] : n \in 0..MaxRaw}

InitParse ==
    /\ raw \in RawInputs
    /\ parsed = NoParse
    /\ ppc = "ready"
    /\ IdleAux
    /\ IdleProc
    /\ IdlePrompt

DoParse ==
    /\ ppc = "ready"
    /\ parsed' = parse(raw)
    /\ ppc' = "parsed"
    /\ UNCHANGED raw

NextParse == DoParse /\ UNCHANGED <<procVars, promptVars, auxVars>>

SpecParse == InitParse /\ [][NextParse]_vars

----------------------------------------------------------------------------
(* _create_overlapping_chunks on its own, for every length of the list.    *)

MaxHist == 60

InitChunk ==
    /\ IdleParse
    /\ IdleAux
    /\ IdlePrompt
    /\ messages \in {Conversation(n, 0) : n \in 0..MaxHist}
    /\ max_workers = 0
    /\ pc = "chunk"
    /\ chunks = <<>>
    /\ metadata = <<>>
    /\ futures = <<>>
    /\ results = <<>>
    /\ yielded = {}
    /\ intermediate_summaries = <<>>
    /\ reduce_log = <<>>
    /\ outcome = NoOutcome
    /\ gen_calls = 0

\* chunks, chunk_metadata = self._create_overlapping_chunks(messages)
ChunkOnly ==
    /\ pc = "chunk"
    /\ chunks' = _create_overlapping_chunks(Len(messages)).chunks
    /\ metadata' = _create_overlapping_chunks(Len(messages)).metadata
    /\ pc' = "chunked"
    /\ UNCHANGED <<messages, max_workers, futures, results, yielded,
                   intermediate_summaries, reduce_log, outcome, gen_calls>>

NextChunk == ChunkOnly /\ UNCHANGED <<parseVars, promptVars, auxVars>>

SpecChunk == InitChunk /\ [][NextChunk]_vars

----------------------------------------------------------------------------
(* create_summary_prompt called again and again on the same summary,       *)
(* recent messages and target, with whatever code_blocks argument.         *)

MaxPromptCalls == 3

PromptHistories == {<<>>, SummaryPlain, SummaryEcho \o CodeHeader}

PromptRecents ==
    {<<>>,
     <<ChatMessage("user", <<Utter(1)>>)>>,
     <<ChatMessage("assistant", <<Utter(1)>>)>>,
     <<ChatMessage("system", <<Utter(1)>>)>>,
     <<ChatMessage("user", <<Utter(1)>>), ChatMessage("assistant", <<Utter(2)>>)>>,
     <<ChatMessage("assistant", <<Utter(1)>>), ChatMessage("user", <<Utter(2)>>)>>,
     <<ChatMessage("user", <<Utter(1)>>), ChatMessage("unknown", <<Utter(2)>>),
       ChatMessage("user", <<Utter(3)>>)>>}

PromptTargets == {"gpt-4", "claude-3", "gemini-pro", "llama3", ""}

PromptCodeArgs ==
    {<<>>,
     <<CodeBlock(<<Lit("python")>>, <<CodeLine(1), NL, CodeLine(2), NL, CodeLine(3)>>)>>,
     <<CodeBlock(<<Lit("text")>>, <<CodeLine(1)>>)>>}

InitPrompt ==
    /\ IdleParse
    /\ IdleAux
    /\ IdleProc
    /\ p_history \in PromptHistories
    /\ p_recent \in PromptRecents
    /\ p_target \in PromptTargets
    /\ p_args = {}
    /\ p_outputs = {}
    /\ p_calls = 0

Assemble(code_blocks) ==
    /\ p_calls < MaxPromptCalls
    /\ p_outputs' = p_outputs \cup
          {create_summary_prompt(p_history, p_recent, code_blocks, p_target)}
    /\ p_args' = p_args \cup {code_blocks}
    /\ p_calls' = p_calls + 1
    /\ UNCHANGED <<p_history, p_recent, p_target>>

NextPrompt ==
    \E code_blocks \in PromptCodeArgs :
        Assemble(code_blocks) /\ UNCHANGED <<parseVars, procVars, auxVars>>

SpecPrompt == InitPrompt /\ [][NextPrompt]_vars

----------------------------------------------------------------------------
(* Format detection on texts that several probes match: a text is a few    *)
(* fragments, one after the other.                                         *)

MaxFragments == 3

DetectFragments ==
    {<<Lit("[]")>>,
     <<Lit("[\""), Lit("You said:"), Lit("\"]")>>,
     <<Lit("You said:")>>,
     <<Lit("chatgpt said:")>>,
     <<Lit("#"), SP, Lit("hi"), NL>>,
     <<Lit("#"), Lit("hi")>>,
     <<Lit("User:"), SP>>,
     <<Lit("User:")>>,
     <<Lit("hi")>>,
     <<NL>>}

RECURSIVE Texts(_)
Texts(n) ==
    IF n = 0 THEN {<<>>}
    ELSE Texts(n - 1) \cup {t \o f : t \in Texts(n - 1), f \in DetectFragments}

InitDetect ==
    /\ raw \in Texts(MaxFragments)
    /\ parsed = NoParse
    /\ ppc = "ready"
    /\ IdleAux
    /\ IdleProc
    /\ IdlePrompt

SpecDetect == InitDetect /\ [][NextParse]_vars

----------------------------------------------------------------------------
(* The reduce stage on its own: _hierarchical_summarize from the point     *)
(* where _process_chunks_with_context has returned the k chunk summaries   *)
(* of a history of 6(k-1)+8 turns.                                         *)

MaxSummaries == 7

\* the conversation whose history makes exactly k chunks
ConversationOfChunks(k) ==
    Conversation((chunk_size - overlap) * (k - 1) + chunk_size + preserve_recent, 0)

InitReduce ==
    /\ IdleParse
    /\ IdleAux
    /\ IdlePrompt
    /\ \E k \in 2..MaxSummaries, g \in {GenFail, SummaryPlain} :
          LET msgs == ConversationOfChunks(k)
              hist == SubSeq(msgs, 1, Len(msgs) - preserve_recent)
              c == _create_overlapping_chunks(Len(hist))
              done == [i \in 1..Len(c.chunks) |->
                         [state |-> "finished", gen |-> g,
                          result |-> _format_and_summarize_with_context(
                                         ChunkMessages(hist, c.chunks[i]), g)]]
          IN  /\ messages = msgs
              /\ chunks = c.chunks
              /\ metadata = c.metadata
              /\ futures = done
              /\ results = [i \in 1..Len(done) |-> done[i].result]
              /\ yielded = 1..Len(done)
              /\ gen_calls = Len(done)
    /\ max_workers \in {MaxWorkers}
    /\ pc = "reduce"
    /\ intermediate_summaries = <<>>
    /\ reduce_log = <<>>
    /\ outcome = NoOutcome

NextReduce ==
    \/ \E g \in GenOutcomes : CombineDirect(g) /\ UNCHANGED <<parseVars, promptVars, auxVars>>
    \/ \E g \in GenOutcomes : CombineGroup(g) /\ UNCHANGED <<parseVars, promptVars, auxVars>>
    \/ \E g \in GenOutcomes : CombineFinal(g) /\ UNCHANGED <<parseVars, promptVars, auxVars>>

SpecReduce == InitReduce /\ [][NextReduce]_vars

----------------------------------------------------------------------------
(* parse on texts given line by line: plain lines, blank lines, lines with *)
(* an explicit role prefix, assistant-style and user-style lines.          *)

MaxLines == 5

LineKinds ==
    {<<>>, <<Lit("hi")>>, <<Lit("User:"), SP, Lit("hi")>>, <<Lit("Certainly!")>>,
     <<Lit("hi"), Lit("?")>>}

LineTexts == {Join(ls, <<NL>>) : ls \in UNION {[1..n -> LineKinds] : n \in 0..MaxLines}}

InitLines ==
    /\ raw \in LineTexts
    /\ parsed = NoParse
    /\ ppc = "ready"
    /\ IdleAux
    /\ IdleProc
    /\ IdlePrompt

SpecLines == InitLines /\ [][NextParse]_vars

----------------------------------------------------------------------------
(* _ensure_code_blocks_present on its own: a summary, a list of code       *)
(* blocks as _extract_code_blocks returns them, and the function applied   *)
(* to the summary and then again to what it returned.                      *)

MaxSummaryLen == 3
MaxBlocks == 2
MaxApplications == 2

SummaryAlphabet == {Lit("summary"), SP, CodeLine(1), CodeLine(2), CodeLine(3)}

Summaries == UNION {[1..n -> SummaryAlphabet] : n \in 0..MaxSummaryLen}

OneLine == <<CodeLine(1)>>
TwoLines == <<CodeLine(1), NL, CodeLine(2)>>
ThreeLines == <<CodeLine(1), NL, CodeLine(2), NL, CodeLine(3)>>

\* blocks of one line (below the length threshold), two lines and three
\* lines, tagged python or untagged ("text")
Blocks ==
    {CodeBlock(<<Lit("python")>>, OneLine),
     CodeBlock(<<Lit("python")>>, TwoLines),
     CodeBlock(<<Lit("text")>>, TwoLines),
     CodeBlock(<<Lit("python")>>, ThreeLines)}

BlockLists == UNION {[1..n -> Blocks] : n \in 0..MaxBlocks}

InitEnsure ==
    /\ IdleParse
    /\ IdleProc
    /\ IdlePrompt
    /\ e_summary \in Summaries
    /\ e_blocks \in BlockLists
    /\ e_outs = <<>>
    /\ s_messages = <<>>
    /\ s_budget = 0
    /\ s_out = NoOutcome

\* summary = self._ensure_code_blocks_present(summary, code_blocks)
Ensure ==
    /\ Len(e_outs) < MaxApplications
    /\ e_outs' = Append(e_outs,
          _ensure_code_blocks_present(
              IF e_outs = <<>> THEN e_summary ELSE e_outs[Len(e_outs)], e_blocks))
    /\ UNCHANGED <<e_summary, e_blocks, s_messages, s_budget, s_out>>

NextEnsure == Ensure /\ UNCHANGED <<parseVars, procVars, promptVars>>

SpecEnsure == InitEnsure /\ [][NextEnsure]_vars

----------------------------------------------------------------------------
(* ContextPreserver.select_essential_messages                              *)

\* a // b for a >= 0: the quotient rounded towards minus infinity
PyFloorDiv(a, b) == IF b > 0 THEN a \div b ELSE -((a + (-b) - 1) \div (-b))

KeepAllLen == 10
MiddlePicks == 5
TokensPerPick == 100

\* min(5, token_budget // 100)
PickCount(token_budget) == Min(MiddlePicks, token_budget \div TokensPerPick)

\* messages.index(msg): the first position holding a message equal to msg
IndexKey(msgs, msg) ==
    CHOOSE i \in DOMAIN msgs : msgs[i] = msg /\ \A j \in 1..(i - 1) : msgs[j] # msg

\* sorted(list, key=...): stable, equal keys keep the order of the list
RECURSIVE SortedByKey(_, _)
SortedByKey(list, msgs) ==
    IF list = <<>> THEN <<>>
    ELSE LET done == SortedByKey(SubSeq(list, 1, Len(list) - 1), msgs)
             m == list[Len(list)]
             before == SelectSeq(done, LAMBDA x : IndexKey(msgs, x) <= IndexKey(msgs, m))
             after == SelectSeq(done, LAMBDA x : IndexKey(msgs, x) > IndexKey(msgs, m))
         IN  before \o <<m>> \o after

SelectReturned(value) == [kind |-> "return", value |-> value]
SelectRaised == [kind |-> "ZeroDivisionError", value |-> <<>>]

select_essential_messages(msgs, token_budget) ==
    IF Len(msgs) <= KeepAllLen THEN SelectReturned(msgs)
    ELSE LET n == Len(msgs)
             middle_messages == SubSeq(msgs, 2, n - 3)
         IN  IF PickCount(token_budget) = 0 THEN SelectRaised
             ELSE LET step == Max(1, PyFloorDiv(Len(middle_messages),
                                                PickCount(token_budget)))
                      picks == (Len(middle_messages) + step - 1) \div step
                      essential_messages ==
                          <<msgs[1]>> \o SubSeq(msgs, n - 2, n)
                          \o [k \in 1..picks |-> middle_messages[(k - 1) * step + 1]]
                  IN  SelectReturned(SortedByKey(essential_messages, msgs))

(* select_essential_messages on its own: lists of distinct messages, lists *)
(* in which one message equals an earlier one, and a range of budgets.     *)

MaxMessages == 13

Budgets == {-150, -1, 0, 50, 99, 100, 250, 400, 500, 1000}

DistinctMessages(n) == [p \in 1..n |-> ChatMessage(TurnRole(p), <<Utter(p)>>)]

\* the message at position j equals the one at position i
WithEqualPair(n, i, j) == [DistinctMessages(n) EXCEPT ![j] = DistinctMessages(n)[i]]

MessageLists ==
    {DistinctMessages(n) : n \in 0..MaxMessages}
        \cup UNION {UNION {{WithEqualPair(n, i, j) : i \in 1..(j - 1)} : j \in 2..n} :
                       n \in 2..MaxMessages}

InitSelect ==
    /\ IdleParse
    /\ IdleProc
    /\ IdlePrompt
    /\ e_summary = <<>>
    /\ e_blocks = <<>>
    /\ e_outs = <<>>
    /\ s_messages \in MessageLists
    /\ s_budget \in Budgets
    /\ s_out = NoOutcome

\* preserved_messages = self.select_essential_messages(messages, budget)
Select ==
    /\ s_out = NoOutcome
    /\ s_out' = select_essential_messages(s_messages, s_budget)
    /\ UNCHANGED <<s_messages, s_budget, e_summary, e_blocks, e_outs>>

NextSelect == Select /\ UNCHANGED <<parseVars, procVars, promptVars>>

SpecSelect == InitSelect /\ [][NextSelect]_vars

----------------------------------------------------------------------------
(* Properties.                                                             *)

\* C1: whatever the raw input (empty, blank, free text, speaker markers,
\* markers that match only when case is ignored), parse returns at least one
\* turn and every returned turn has a role.
C1_ParseReturnsTurns ==
    ppc = "parsed" =>
        /\ Len(parsed.messages) >= 1
        /\ parsed.message_count >= 1
        /\ \A k \in 1..Len(parsed.messages) :
              parsed.messages[k].role \in {"user", "assistant"}

\* parse has returned for an input whose only speaker marker is lower-case
C1_Witness ==
    /\ ppc = "parsed"
    /\ \E k \in 1..Len(raw) : raw[k] = Lit("chatgpt said:")
    /\ \A k \in 1..Len(raw) : ~IsSaidMarker(raw[k])
    /\ parsed.format_detected = "said_format"
    /\ Len(parsed.messages) >= 1

\* C2: process_conversation never raises: it ends by returning a
\* (compressed history, recent turns) pair, on the direct path (1..12
\* historical turns) as on the chunked path.
C2_NeverRaises == pc # "raised"

\* the list of chunk summaries handed to the reducer: the input of the one
\* call when there are at most three, else the inputs of the group calls
RECURSIVE Flatten(_)
Flatten(lists) == IF lists = <<>> THEN <<>> ELSE Head(lists) \o Flatten(Tail(lists))

ReducerInput ==
    IF Len(chunks) <= GroupSize THEN reduce_log[1].summaries
    ELSE Flatten([k \in 1..NGroups |-> reduce_log[k].summaries])

\* what task i computes from chunk i and the outcome of its generate call
TaskValue(i) ==
    _format_and_summarize_with_context(ChunkMessages(historical, chunks[i]),
                                       futures[i].gen)

\* C3: whatever the number of chunks, the pool size and the order in which
\* the tasks complete, slot i of the results is the value computed from chunk
\* i, and the list handed to the reducer has one entry per chunk, entry i
\* being that value.
C3_ResultsByOrdinal ==
    /\ pc = "map" =>
          \A i \in yielded : results[i] = futures[i].result /\ results[i] = TaskValue(i)
    /\ pc \in {"reduce", "returned"} /\ chunks # <<>> =>
          /\ Len(chunk_summaries) = Len(chunks)
          /\ \A i \in 1..Len(chunks) : chunk_summaries[i] = TaskValue(i)
    /\ pc = "returned" /\ chunks # <<>> =>
          /\ Len(ReducerInput) = Len(chunks)
          /\ \A i \in 1..Len(chunks) : ReducerInput[i] = TaskValue(i)

\* a later task was collected before an earlier one that ended differently
C3_Witness ==
    /\ pc = "map"
    /\ \E i, j \in 1..Len(futures) :
          /\ i < j
          /\ j \in yielded
          /\ i \notin yielded
          /\ futures[i].state = "finished"
          /\ futures[i].result # futures[j].result

RECURSIVE FencedBlocksOf(_)
FencedBlocksOf(msgs) ==
    IF msgs = <<>> THEN <<>>
    ELSE FencedBlocks(Head(msgs).content) \o FencedBlocksOf(Tail(msgs))

\* C4: every fenced code block of the history that reaches the length
\* threshold is, with its exact text, in the compressed history that
\* process_conversation returns, whatever the generate calls returned.
C4_CodeFidelity ==
    pc = "returned" /\ Len(messages) > preserve_recent =>
        \A k \in 1..Len(FencedBlocksOf(historical)) :
            TextLen(FencedBlocksOf(historical)[k].code) >= MinCodeLen =>
                Contains(outcome.history, FencedBlocksOf(historical)[k].code)

FailedTasks == {i \in 1..Len(futures) : futures[i].gen = GenFail}

AllReducesSucceeded == \A k \in 1..Len(reduce_log) : reduce_log[k].gen # GenFail

IsFallback(t) == t # <<>> /\ t[1] = Lit("[Summarization failed: ")

\* C5: when the generate call of exactly one chunk k fails and every other
\* call returns text, process_conversation returns a non-empty history, the
\* reducer gets for every other chunk exactly the text generate returned for
\* it, and slot k alone holds the unsummarized fallback.
C5_FailureContained ==
    (pc = "returned" /\ chunks # <<>> /\ Cardinality(FailedTasks) = 1
        /\ AllReducesSucceeded) =>
        /\ outcome.kind = "return"
        /\ outcome.history # <<>>
        /\ \A i \in 1..Len(chunks) :
              IF i \in FailedTasks
              THEN /\ IsFallback(ReducerInput[i])
                   /\ Contains(ReducerInput[i],
                        TakeChars(_format_messages(ChunkMessages(historical, chunks[i])),
                                  TaskTruncate))
              ELSE /\ ReducerInput[i] = futures[i].gen
                   /\ ~IsFallback(ReducerInput[i])

\* a run of several chunks in which one task failed, not the first one
C5_Witness ==
    /\ pc = "returned"
    /\ Len(chunks) >= 3
    /\ Cardinality(FailedTasks) = 1
    /\ 1 \notin FailedTasks
    /\ AllReducesSucceeded

Positions(chunk) == {chunk[k] : k \in 1..Len(chunk)}

\* C6: every turn of a history of n >= 1 turns is in at least one chunk,
\* whether or not a short final window was merged.
C6_ChunkCoverage ==
    pc = "chunked" /\ Len(messages) >= 1 =>
        \A p \in 1..Len(messages) :
            \E c \in 1..Len(chunks) : p \in Positions(chunks[c])

\* the final window was short and was merged into the chunk before it
C6_Witness ==
    /\ pc = "chunked"
    /\ Len(chunks) >= 2
    /\ Len(chunks[Len(chunks)]) > chunk_size
    /\ Len(messages) \in Positions(chunks[Len(chunks)])

ChunksOf(p) == {c \in 1..Len(chunks) : p \in Positions(chunks[c])}

\* C7: each chunk is a contiguous sub-range of the history (so no turn is
\* twice in one chunk), no turn is in more than two chunks, and a turn in two
\* chunks is in chunks of consecutive ordinals, also after a merge.
C7_ChunksContiguous ==
    pc = "chunked" =>
        /\ \A c \in 1..Len(chunks) :
              \A k \in 1..(Len(chunks[c]) - 1) : chunks[c][k + 1] = chunks[c][k] + 1
        /\ \A p \in 1..Len(messages) :
              /\ Cardinality(ChunksOf(p)) <= 2
              /\ \A c, d \in ChunksOf(p) : c - d \in {-1, 0, 1}

Alternates(msgs) ==
    \A k \in 2..Len(msgs) : msgs[k].role # msgs[k - 1].role

\* the turns parse returns are those of _parse_generic_format
UsedGeneric(content) ==
    \/ _detect_format(content) # "said_format"
    \/ SaidMessages(content) = <<>>

\* C8 as claimed: whichever strategy parse selects, the returned turns
\* strictly alternate.
C8_AlwaysAlternates == ppc = "parsed" => Alternates(parsed.messages)

\* C8: the turns the generic strategy returns strictly alternate.
C8_GenericAlternates ==
    ppc = "parsed" /\ UsedGeneric(raw) => Alternates(parsed.messages)

\* the generic strategy returned turns that its validation pass had to change
C8_Witness ==
    /\ ppc = "parsed"
    /\ UsedGeneric(raw)
    /\ Len(parsed.messages) >= 2
    /\ ~Alternates(GenericStored(raw))
    /\ parsed.messages # GenericStored(raw)

\* C9: the prompt create_summary_prompt returns is a function of the
\* summarized history, the recent messages and the target model alone: calls
\* that agree on these return the same text, whatever else they are given.
C9_PromptDeterministic == Cardinality(p_outputs) <= 1

\* it was called with different code_blocks arguments
C9_Witness ==
    /\ Cardinality(p_args) >= 2
    /\ p_calls >= 2
    /\ p_recent # <<>>
    /\ Cardinality(p_outputs) = 1

\* C10: parse("") is one user turn with empty content, and
\* process_conversation on it returns an empty history and that turn as the
\* recent messages, without raising and without any generate call.
C10_EmptyInput ==
    /\ parse(<<>>).messages = <<ChatMessage("user", <<>>)>>
    /\ (messages = parse(<<>>).messages /\ pc # "call") =>
          /\ pc = "returned"
          /\ outcome = Returned(<<>>, <<ChatMessage("user", <<>>)>>)
          /\ gen_calls = 0
          /\ reduce_log = <<>>
          /\ futures = <<>>

\* process_conversation has returned for the turns of parse("")
C10_Witness ==
    /\ messages = parse(<<>>).messages
    /\ Len(messages) = 1
    /\ pc = "returned"

IsWhitespaceOnly(s) == s # <<>> /\ \A k \in 1..Len(s) : IsSpace(s[k])

\* C11: for an input made only of whitespace (length >= 1) the generic
\* strategy returns exactly one user turn whose content is the input itself,
\* character for character.
C11_WhitespaceVerbatim ==
    ppc = "parsed" /\ IsWhitespaceOnly(raw) =>
        /\ parsed.format_detected = "generic"
        /\ parsed.messages = _parse_generic_format(raw)
        /\ parsed.messages = <<ChatMessage("user", raw)>>

MapTasksOpen == {i \in 1..Len(futures) : futures[i].state # "finished"}

\* C12: on the chunked path no reduce call is issued while a map task is
\* pending or running: when the first reduce call starts, and from then on,
\* every task has finished and every result sits in the slot of its chunk.
C12_ReduceAfterMap ==
    (pc = "reduce" \/ reduce_log # <<>>) =>
        /\ MapTasksOpen = {}
        /\ yielded = 1..Len(futures)
        /\ Len(results) = Len(chunks)
        /\ \A i \in 1..Len(chunks) : results[i] = futures[i].result

\* a reduce call was issued after several tasks ran side by side
C12_Witness ==
    /\ pc = "reduce"
    /\ reduce_log # <<>>
    /\ Len(chunks) >= 4
    /\ max_workers >= 2
    /\ MapTasksOpen = {}

\* C13: when the generate call of a chunk fails, the slot of that chunk holds
\* a failure marker followed by the rendering of all the turns of the chunk,
\* each with its role label and its whole content: nothing is cut off.
C13_FallbackComplete ==
    \A i \in yielded :
        futures[i].gen = GenFail =>
            /\ IsFallback(results[i])
            /\ Contains(results[i],
                        _format_messages(ChunkMessages(historical, chunks[i])))

\* the value reduce call k returned: an intermediate summary, or the history
\* process_conversation returns
ReduceReturned(k) ==
    IF reduce_log[k].is_final THEN outcome.history ELSE intermediate_summaries[k]

\* C14: when the generate call of a reduce step fails, the step raises
\* nothing and returns a failed-combination marker followed by the whole
\* concatenation of its input summaries, in input order, whatever its length.
C14_CombineFallbackComplete ==
    \A k \in 1..Len(reduce_log) :
        reduce_log[k].gen = GenFail =>
            /\ outcome.kind # "AttributeError"
            /\ ReduceReturned(k)[1] = Lit("[Combination failed: ")
            /\ Contains(ReduceReturned(k), Join(reduce_log[k].summaries, Separator))

\* the four probes of format detection, each on its own
ProbeJson(content) == StartsWithBracket(content) /\ JsonLoads(content)
ProbeSaid(content) == \E i \in 1..Len(content) : IsSaidMarkerAnyCase(content[i])
ProbeHeader(content) == \E i \in 1..Len(content) : HeaderAt(content, i)
ProbeConversation(content) == \E i \in 1..Len(content) : RolePrefixAt(content, i)

ProbesMatched(content) ==
    {t \in {"json", "said_format", "openai_web", "conversation"} :
        \/ t = "json" /\ ProbeJson(content)
        \/ t = "said_format" /\ ProbeSaid(content)
        \/ t = "openai_web" /\ ProbeHeader(content)
        \/ t = "conversation" /\ ProbeConversation(content)}

ProbeRank(t) ==
    CASE t = "json" -> 1
      [] t = "said_format" -> 2
      [] t = "openai_web" -> 3
      [] t = "conversation" -> 4
      [] OTHER -> 5

\* C15: the detected format is the tag of the first probe that matches, in
\* the order json, said_format, openai_web, conversation, and generic when
\* none matches; json is returned only for a text that parses as JSON.
C15_FirstProbeWins ==
    ppc = "parsed" =>
        /\ ProbesMatched(raw) = {} => parsed.format_detected = "generic"
        /\ ProbesMatched(raw) # {} =>
              /\ parsed.format_detected \in ProbesMatched(raw)
              /\ \A t \in ProbesMatched(raw) :
                    ProbeRank(parsed.format_detected) <= ProbeRank(t)
        /\ parsed.format_detected = "json" => JsonLoads(raw)

\* a text that three probes match was tagged
C15_Witness ==
    /\ ppc = "parsed"
    /\ Cardinality(ProbesMatched(raw)) >= 3
    /\ parsed.format_detected = "said_format"

\* the first line of the text does not begin with a speaker marker
FirstLineLacksMarker(content) ==
    LET first_line == Strip(SplitLines(Strip(content))[1])
    IN  first_line = <<>> \/ ~IsSaidMarker(first_line[1])

\* the turns the said_format strategy is said to return
SaidTurnsPerMarker(content) ==
    (IF FirstLineLacksMarker(content)
     THEN <<ChatMessage("user", Strip(SplitLines(Strip(content))[1]))>>
     ELSE <<>>)
    \o SaidTurns(SaidMatches(content, 1))

\* C16: for a text tagged said_format the turns are a leading user turn
\* holding the first line, present exactly when that line has no speaker
\* marker, then one turn per speaker marker in order of appearance: user for
\* You, assistant for the others, the content being the trimmed text up to the
\* next marker or the end.
C16_SaidTurns ==
    ppc = "parsed" /\ parsed.format_detected = "said_format" =>
        parsed.messages = SaidTurnsPerMarker(raw)

\* a text without any role signal: plain words, spaces and line breaks
IsPlainText(s) == \A k \in 1..Len(s) : s[k] = Lit("hi") \/ IsSpace(s[k])

\* the blank lines i..e-1 are a maximal run
RECURSIVE RunEnd(_, _)
RunEnd(lines, i) ==
    IF i <= Len(lines) /\ IsBlank(lines[i]) THEN RunEnd(lines, i + 1) ELSE i

\* first lines of the runs of at least 2 blank lines that follow a content line
FlushingRuns(lines) ==
    {i \in 2..Len(lines) :
        /\ IsBlank(lines[i])
        /\ ~IsBlank(lines[i - 1])
        /\ RunEnd(lines, i) - i >= 2}

\* the turns completed by the end of the scan, when only blank runs end turns:
\* one per flushing run, and the buffer left at the end
TurnsByBlankRuns(lines) ==
    Cardinality(FlushingRuns(lines))
    + (IF \E i \in 1..Len(lines) :
             ~IsBlank(lines[i]) /\ \A j \in i..Len(lines) : j \notin FlushingRuns(lines)
       THEN 1 ELSE 0)

\* C17: in the generic strategy a non-empty buffer is flushed as a turn, and
\* the role flipped, exactly at the runs of at least 2 consecutive blank
\* lines: once per run, also for a run of exactly 2, never at a single blank
\* line.
C17_FlushAtBlankRuns ==
    (ppc = "parsed" /\ IsPlainText(raw) /\ ~IsWhitespaceOnly(raw) /\ raw # <<>>) =>
        LET stored == GenericStored(raw)
        IN  /\ parsed.format_detected = "generic"
            /\ Len(stored) = TurnsByBlankRuns(SplitLines(raw))
            /\ Len(parsed.messages) = Len(stored)
            /\ \A k \in 1..Len(stored) :
                  stored[k].role = (IF k % 2 = 1 THEN "user" ELSE "assistant")

\* ceil(k / 3)
Batches(k) == (k + 2) \div 3

\* what reduce call j returned
CombineResult(j) == _combine_summaries(reduce_log[j].summaries, reduce_log[j].gen)

\* C18: k chunk summaries take 1 reduce call when k <= 3 and ceil(k/3)+1
\* calls when k > 3: intermediate call j gets summaries 3j..3j+2 (at most 3,
\* in the original order), one call is final, it is the last one, it gets the
\* intermediate results in batch order, and its result is what is returned.
C18_ReduceCalls ==
    LET k == Len(chunk_summaries)
        n == Len(reduce_log)
    IN  /\ \A j \in 1..(n - 1) : ~reduce_log[j].is_final
        /\ pc \in {"reduce", "returned"} /\ chunks # <<>> =>
              gen_calls = Len(futures) + n
        /\ pc = "returned" /\ chunks # <<>> =>
              /\ reduce_log[n].is_final
              /\ outcome.history =
                    _ensure_code_blocks_present(CombineResult(n),
                                                _extract_code_blocks(historical))
              /\ IF k <= 3
                 THEN /\ n = 1
                      /\ reduce_log[1].summaries = chunk_summaries
                 ELSE /\ n = Batches(k) + 1
                      /\ \A j \in 1..Batches(k) :
                            /\ Len(reduce_log[j].summaries) \in 1..3
                            /\ reduce_log[j].summaries =
                                  [m \in 1..Min(3, k - 3 * (j - 1)) |->
                                      chunk_summaries[3 * (j - 1) + m]]
                      /\ reduce_log[n].summaries =
                            [j \in 1..Batches(k) |-> CombineResult(j)]

\* seven summaries were reduced in three batches, the last batch of one
C18_Witness ==
    /\ pc = "returned"
    /\ Len(chunk_summaries) = 7
    /\ Len(reduce_log) = 4
    /\ Len(reduce_log[3].summaries) = 1
    /\ chunk_summaries[1] # chunk_summaries[2]

LastChunks == {c \in 1..Len(metadata) : metadata[c].is_last}
FirstChunks == {c \in 1..Len(metadata) : metadata[c].is_first}

\* C19: for a history of more than chunk_size turns, no chunk is a final
\* window of fewer than chunk_size/2 turns; exactly one chunk is marked
\* is_last, the one of highest ordinal; exactly one is marked is_first,
\* ordinal 0; so a chunk not marked is_last has a successor and a chunk not
\* marked is_first has a predecessor.
C19_FirstAndLast ==
    pc = "chunked" /\ Len(messages) > chunk_size =>
        /\ Len(metadata) = Len(chunks)
        /\ \A c \in 1..Len(chunks) :
              /\ metadata[c].index = c - 1
              /\ Len(chunks[c]) >= chunk_size \div 2
              /\ ~metadata[c].is_last => c + 1 <= Len(chunks) /\ chunks[c + 1] # <<>>
              /\ ~metadata[c].is_first => c - 1 >= 1 /\ chunks[c - 1] # <<>>
        /\ LastChunks = {Len(chunks)}
        /\ FirstChunks = {1}

\* a window reached the end of the history and a shorter one followed it
C19_Witness ==
    /\ pc = "chunked"
    /\ Len(chunks) >= 3
    /\ Len(messages) = (chunk_size - overlap) * (Len(chunks) - 1) + chunk_size
    /\ Len(chunks[Len(chunks)]) > chunk_size
    /\ LastChunks = {Len(chunks)}

StartsAdvance ==
    \A c \in 1..(Len(chunks) - 1) :
        chunks[c + 1][1] - chunks[c][1] = chunk_size - overlap

\* C20 as claimed: every chunk has at most chunk_size turns, the chunk that
\* absorbed a short final window included, and consecutive chunks start
\* chunk_size - overlap turns apart.
C20_AtMostW ==
    pc = "chunked" =>
        /\ \A c \in 1..Len(chunks) : Len(chunks[c]) <= chunk_size
        /\ StartsAdvance

\* C20: every chunk but the last has at most chunk_size turns; the last one
\* has at most chunk_size entries too unless it absorbed a short final
\* window, and then at most chunk_size + chunk_size/2 - 1; consecutive chunks
\* start chunk_size - overlap turns apart.
C20_AtMostWUnlessMerged ==
    pc = "chunked" =>
        /\ \A c \in 1..Len(chunks) :
              /\ c < Len(chunks) => Len(chunks[c]) <= chunk_size
              /\ Len(chunks[c]) <= chunk_size + chunk_size \div 2 - 1
              /\ Len(chunks[c]) > chunk_size =>
                    Len(messages) - (chunks[c][1] - 1) - (chunk_size - overlap)
                        \in 1..(chunk_size \div 2 - 1)
        /\ StartsAdvance

\* the last of several chunks absorbed a window of three turns
C20_Witness ==
    /\ pc = "chunked"
    /\ Len(chunks) >= 2
    /\ Len(chunks[Len(chunks)]) = chunk_size + chunk_size \div 2 - 1
    /\ chunks[Len(chunks)][1] - chunks[Len(chunks) - 1][1] = chunk_size - overlap

\* what the first application appended to the summary
Appended == SubSeq(e_outs[1], Len(e_summary) + 1, Len(e_outs[1]))

\* the verification step declared the block lost: its fenced copy was appended
DeclaredLost(block) == Contains(Appended, FencedCopy(block))

\* the stated criterion: the normalized code is not in the normalized
\* summary and, for a block of more than one line, neither its first nor
\* its last line is in the summary
StatedLost(summary, block) ==
    LET code_lines == SplitLines(block.code)
    IN  /\ ~Contains(Normalize(summary), Normalize(block.code))
        /\ Len(code_lines) > 1 =>
              /\ ~Contains(summary, Strip(code_lines[1]))
              /\ ~Contains(summary, Strip(code_lines[Len(code_lines)]))

\* C21: a fragment of at least the minimum length is declared lost exactly
\* when its normalized text is not contained in the normalized summary and,
\* if it spans more than one line (two lines or more), both its first and
\* its last line are absent from the summary.
C21_LostCriterion ==
    e_outs # <<>> =>
        \A i \in DOMAIN e_blocks :
            TextLen(e_blocks[i].code) >= MinCodeLen =>
                (DeclaredLost(e_blocks[i]) <=> StatedLost(e_summary, e_blocks[i]))

\* the blocks the code declared lost, in the order of the list
LostBlocks == SelectSeq(e_blocks, LAMBDA b : DeclaredLost(b))

SectionTitles(s) == {i \in DOMAIN s : s[i] = Lit("## Important Code Blocks")}

\* C22: the summary is a prefix of the output; when no fragment is declared
\* lost the output is the summary; otherwise the output ends with one
\* "Important Code Blocks" section whose fenced blocks, read back, are the
\* lost fragments (one per entry of the list), verbatim, in extraction order,
\* each with its language tag when one was given ("text" stands for none).
C22_OnlyAppends ==
    e_outs # <<>> =>
        /\ Len(e_outs[1]) >= Len(e_summary)
        /\ SubSeq(e_outs[1], 1, Len(e_summary)) = e_summary
        /\ MissingBlocks(e_summary, e_blocks) = <<>> => e_outs[1] = e_summary
        /\ MissingBlocks(e_summary, e_blocks) # <<>> =>
              /\ Cardinality(SectionTitles(Appended)) = 1
              /\ FencedBlocks(Appended) = MissingBlocks(e_summary, e_blocks)
              /\ LostBlocks = MissingBlocks(e_summary, e_blocks)
              /\ Appended[Len(Appended) - 2] = FENCE

\* two fragments were lost, a tagged one before an untagged one
C22_Witness ==
    /\ Len(e_outs) = 1
    /\ Len(MissingBlocks(e_summary, e_blocks)) = 2
    /\ e_blocks[1].language = <<Lit("python")>>
    /\ e_blocks[2].language = <<Lit("text")>>
    /\ e_blocks[1].code # e_blocks[2].code
    /\ e_outs[1] # e_summary

\* C29: applying _ensure_code_blocks_present to its own output with the same
\* fragments returns that output unchanged: nothing is appended twice and
\* no second "Important Code Blocks" section is added.
C29_Idempotent ==
    \A k \in 2..Len(e_outs) :
        /\ e_outs[k] = e_outs[k - 1]
        /\ Cardinality(SectionTitles(e_outs[k])) <= 1

\* the first application appended a section, and the function ran again
C29_Witness ==
    /\ Len(e_outs) >= 2
    /\ e_outs[1] # e_summary
    /\ Cardinality(SectionTitles(e_outs[2])) = 1

\* the last preserve_recent turns of the caller's sequence
RecentTail == SubSeq(messages, Len(messages) - preserve_recent + 1, Len(messages))

\* the positions of the caller's sequence that a map task was given
SentToGeneration == UNION {{chunks[i][k] : k \in DOMAIN chunks[i]} : i \in DOMAIN chunks}

\* C23: a turn sequence longer than preserve_recent is split into a
\* non-empty historical prefix and a tail of exactly preserve_recent turns,
\* prefix followed by tail being the input; the recent turns returned are
\* the tail turns, unmodified and in order; only prefix turns are sent to
\* generation; and no step changes the caller's sequence.
C23_SplitFrame ==
    /\ [](Len(messages) > preserve_recent =>
            /\ historical # <<>>
            /\ Len(recent) = preserve_recent
            /\ historical \o recent = messages
            /\ SentToGeneration \subseteq 1..(Len(messages) - preserve_recent)
            /\ outcome.kind = "return" => outcome.recent = RecentTail)
    /\ [][messages' = messages]_vars

\* a conversation went through the map and reduce stages and was returned
C23_Witness ==
    /\ pc = "returned"
    /\ outcome.kind = "return"
    /\ Len(messages) > preserve_recent + DirectLimit
    /\ SentToGeneration = 1..(Len(messages) - preserve_recent)
    /\ outcome.recent = RecentTail

\* the chunks whose generation request was issued, and those in flight
Requested == {i \in DOMAIN futures : futures[i].state # "pending"}
InFlight == {i \in DOMAIN futures : futures[i].state = "running"}

\* the map stage is running or has just ended
InMapStage == pc = "map" \/ (pc = "reduce" /\ reduce_log = <<>>)

\* C24: the map stage issues exactly one generation request per chunk, also
\* when requests fail; at most max_workers requests are in flight at any
\* moment; and each result slot is written exactly once, by the collecting
\* loop, with the result of its own finished task.
C24_OneRequestPerChunk ==
    /\ [](InMapStage =>
            /\ Len(futures) = Len(chunks)
            /\ gen_calls = Cardinality(Requested)
            /\ Cardinality(InFlight) <= max_workers
            /\ yielded = {i \in DOMAIN results : results[i] # NoneResult}
            /\ pc = "reduce" => Requested = DOMAIN chunks /\ yielded = DOMAIN chunks)
    /\ [][\A i \in DOMAIN results :
            results'[i] # results[i] =>
                /\ results[i] = NoneResult
                /\ i \notin yielded
                /\ futures[i].state = "finished"
                /\ results'[i] = futures[i].result]_vars

\* four chunks went through a pool of fewer workers, a request failed, and
\* the map stage ended
C24_Witness ==
    /\ pc = "reduce"
    /\ reduce_log = <<>>
    /\ Len(chunks) > max_workers
    /\ \E i \in DOMAIN futures : futures[i].gen = GenFail
    /\ gen_calls = Len(chunks)

\* the state of the generic loop before its iteration on line i
RECURSIVE StateAt(_, _)
StateAt(lines, i) ==
    IF i = 1
    THEN [messages |-> <<>>, current_role |-> "none", current_content |-> <<>>]
    ELSE GenericStep(lines, i - 1, StateAt(lines, i - 1))

\* line i is not blank and matches no role signal
IsPlainLine(lines, i) ==
    ~IsBlank(lines[i]) /\ detect_role_change(Strip(lines[i])) = "none"

\* line i is blank and is the first line of a run of at least 2 blank lines
IsBlankRunBoundary(lines, i) ==
    /\ IsBlank(lines[i])
    /\ (i = 1 \/ ~IsBlank(lines[i - 1]))
    /\ RunEnd(lines, i) - i >= 2

\* The frame of a line without a role signal: it is appended to the buffer,
\* the completed turns stay, the role stays, or becomes user if none was set.
PlainLinesAppend ==
    ppc = "parsed" =>
        LET lines == SplitLines(raw)
        IN  \A i \in 1..Len(lines) :
                IsPlainLine(lines, i) =>
                    LET before == StateAt(lines, i)
                        after == StateAt(lines, i + 1)
                    IN  /\ after.messages = before.messages
                        /\ after.current_content =
                              Append(before.current_content, Strip(lines[i]))
                        /\ after.current_role =
                              (IF before.current_role = "none" THEN "user"
                               ELSE before.current_role)

\* a turn is completed only by a line with a role signal or by the first
\* line of a run of at least 2 blank lines
TurnsBeginAtSignals ==
    ppc = "parsed" =>
        LET lines == SplitLines(raw)
        IN  \A i \in 1..Len(lines) :
                StateAt(lines, i + 1).messages # StateAt(lines, i).messages =>
                    \/ (~IsBlank(lines[i]) /\ ~IsPlainLine(lines, i))
                    \/ IsBlankRunBoundary(lines, i)

\* the first turn returned has role user when the first content line
\* carries no role signal
FirstTurnUser ==
    ppc = "parsed" =>
        LET lines == SplitLines(raw)
        IN  \A i \in 1..Len(lines) :
                (IsPlainLine(lines, i) /\ \A j \in 1..(i - 1) : IsBlank(lines[j])) =>
                    parsed.messages[1].role = "user"

\* C25: in the generic strategy a non-blank line that matches no role signal
\* is appended to the current buffer and leaves the current role and the
\* completed turns unchanged; a new turn begins only at a line carrying a
\* role signal or at a blank-run boundary; and the first turn gets role user
\* when no signal has been seen before content begins.
C25_PlainLineFrame == PlainLinesAppend /\ TurnsBeginAtSignals /\ FirstTurnUser

\* where the atom a is in the text s (0 if nowhere), and how often
IndexOf(s, a) ==
    IF \E i \in DOMAIN s : s[i] = a
    THEN CHOOSE i \in DOMAIN s : s[i] = a /\ \A j \in 1..(i - 1) : s[j] # a
    ELSE 0
Occurrences(s, a) == Cardinality({i \in DOMAIN s : s[i] = a})

SummaryHeader == Lit("# Previous Conversation Summary")
RecentHeader == Lit("# Recent Messages (Verbatim)")

\* where the content of recent turn k is in the prompt, after the recent header
TurnIndex(prompt, k) ==
    CHOOSE i \in DOMAIN prompt :
        /\ i > IndexOf(prompt, RecentHeader)
        /\ SubSeq(prompt, i, i + Len(p_recent[k].content) - 1) = p_recent[k].content
        /\ \A j \in (IndexOf(prompt, RecentHeader) + 1)..(i - 1) :
              SubSeq(prompt, j, j + Len(p_recent[k].content) - 1) # p_recent[k].content

\* summary header, history, recent header, every recent turn once, in order
SectionsInOrder(prompt) ==
    LET h == IndexOf(prompt, SummaryHeader)
        r == IndexOf(prompt, RecentHeader)
    IN  /\ Occurrences(prompt, SummaryHeader) = 1
        /\ SubSeq(prompt, h + 1, h + 2 + Len(p_history)) = <<NL, NL>> \o p_history
        /\ p_recent # <<>> =>
              /\ Occurrences(SubSeq(prompt, h + 3 + Len(p_history), Len(prompt)),
                             RecentHeader) = 1
              /\ r > h + 2 + Len(p_history)
              /\ \A k \in DOMAIN p_recent :
                    /\ Occurrences(SubSeq(prompt, r, Len(prompt)),
                                   p_recent[k].content[1]) = 1
                    /\ k > 1 => TurnIndex(prompt, k) > TurnIndex(prompt, k - 1)

\* the label in front of each recent turn names the role of that turn
OwnRoleLabels(prompt) ==
    \A k \in DOMAIN p_recent :
        LET label == prompt[TurnIndex(prompt, k) - 1]
        IN  /\ label = Lit("User: ") <=> p_recent[k].role = "user"
            /\ label = Lit("Assistant: ") <=> p_recent[k].role = "assistant"

\* the continuation instruction comes once, after every other section
InstructionCloses(prompt) ==
    /\ Occurrences(prompt, Instruction) = 1
    /\ IndexOf(prompt, Instruction) > IndexOf(prompt, SummaryHeader) + Len(p_history)
    /\ \A k \in DOMAIN p_recent : IndexOf(prompt, Instruction) > TurnIndex(prompt, k)

PromptSectionsInOrder == \A prompt \in p_outputs : SectionsInOrder(prompt)
PromptOwnRoleLabels == \A prompt \in p_outputs : OwnRoleLabels(prompt)
PromptInstructionCloses == \A prompt \in p_outputs : InstructionCloses(prompt)

\* C26: the assembled prompt consists, in this order, of the summary header,
\* the compressed history, the recent-turns header, every recent turn once
\* in original order under the label of its own role (user, assistant,
\* system, unknown), and the continuation instruction as the closing element.
C26_PromptLayout ==
    \A prompt \in p_outputs :
        SectionsInOrder(prompt) /\ OwnRoleLabels(prompt) /\ InstructionCloses(prompt)

\* every step that can be taken is eventually taken: worker threads run the
\* queued tasks, every generation call returns or fails, the collecting loop
\* and the reduce stage go on
SpecLive == Spec /\ WF_vars(Next)

\* one generation call per chunk, ceil(k/3) + 1 reduce calls at most
CallBound == Len(chunks) + Batches(Len(chunks)) + 1

\* C27: if every generation call eventually returns or fails,
\* process_conversation eventually returns for every turn sequence, after at
\* most one generation call per chunk plus ceil(k/3) + 1 reduce calls; no
\* failed call is retried.
C27_Terminates ==
    /\ <>(pc = "returned")
    /\ [](gen_calls <= CallBound)

\* ordinals 0, 1, ..., k-1 in list order, one total for all chunks
OrdinalsAndOneTotal ==
    /\ Len(metadata) = Len(chunks)
    /\ \A i \in DOMAIN metadata : metadata[i].index = i - 1
    /\ \A i, j \in DOMAIN metadata : metadata[i].total = metadata[j].total

\* the last chunk absorbed the short final window: after its own window it
\* holds the positions of that window, which start further back
FinalWindowMerged ==
    LET last == chunks[Len(chunks)]
    IN  \E k \in 1..(Len(last) - 1) : last[k + 1] <= last[k]

\* C28 as claimed: the chunks carry ordinals 0..k-1 in list order and one
\* total, and that total is the number k of chunks returned, also when the
\* short final window was merged.
C28_TotalIsCount ==
    pc = "chunked" =>
        /\ OrdinalsAndOneTotal
        /\ \A i \in DOMAIN metadata : metadata[i].total = Len(chunks)

\* C28: the chunks carry ordinals 0..k-1 in list order and one total; the
\* total is the number of windows counted upfront: the number k of chunks
\* returned, or k + 1 when the short final window was merged.
C28_TotalIsEstimate ==
    pc = "chunked" =>
        /\ OrdinalsAndOneTotal
        /\ \A i \in DOMAIN metadata :
              metadata[i].total = Len(chunks) + (IF FinalWindowMerged THEN 1 ELSE 0)

\* several chunks, the last one with the merged final window
C28_Witness ==
    /\ pc = "chunked"
    /\ Len(chunks) >= 3
    /\ FinalWindowMerged
    /\ metadata[1].total = Len(chunks) + 1

\* sub can be read off list at increasing positions
RECURSIVE IsSubsequence(_, _)
IsSubsequence(sub, list) ==
    IF sub = <<>> THEN TRUE
    ELSE IF list = <<>> THEN FALSE
    ELSE IF Head(sub) = Head(list) THEN IsSubsequence(Tail(sub), Tail(list))
    ELSE IsSubsequence(sub, Tail(list))

\* the first message, then messages of the middle at increasing positions,
\* then the last three messages
KeepsEndsInOrder(value, msgs) ==
    LET n == Len(msgs)
        k == Len(value)
    IN  /\ k >= 4
        /\ value[1] = msgs[1]
        /\ SubSeq(value, k - 2, k) = SubSeq(msgs, n - 2, n)
        /\ IsSubsequence(SubSeq(value, 2, k - 3), SubSeq(msgs, 2, n - 3))

SelectNeverRaises == s_out # NoOutcome => s_out.kind = "return"

SelectKeepsOrder ==
    (s_out # NoOutcome /\ s_out.kind = "return" /\ Len(s_messages) > KeepAllLen) =>
        KeepsEndsInOrder(s_out.value, s_messages)

\* C30: for every message list and every integer budget (below 100, zero
\* and negative included) select_essential_messages returns without raising;
\* a list of at most 10 messages is returned unchanged; for a longer list
\* the result holds the first message and the last three, no position twice,
\* in the order of the input, also when messages of the input are equal.
C30_SelectEssential ==
    s_out # NoOutcome =>
        /\ s_out.kind = "return"
        /\ Len(s_messages) <= KeepAllLen => s_out.value = s_messages
        /\ Len(s_messages) > KeepAllLen => KeepsEndsInOrder(s_out.value, s_messages)

=============================================================================
